---- MODULE Spec2Model ----
(***************************************************************************)
(* Match-3 with a rotating board: MatchValidator (match detection and      *)
(* valid-move search), GravityManager (masked collect-and-place gravity)   *)
(* and the Match3Game controller (selection, swap, rotation, cascade).     *)
(*                                                                         *)
(* A Node is an identity (a positive integer); 0 is null.  gem[n] is the   *)
(* Gem component attached to node n (type, row, col).  grid[r][c] is the   *)
(* node stored in the slot, rows and columns counted from 0 as in the      *)
(* code.                                                                   *)
(***************************************************************************)
EXTENDS Integers, Sequences, FiniteSets, TLC

VARIABLES
    rows,             \* number of rows of the board
    cols,             \* number of columns of the board
    playablePattern,  \* [row][col] -> 1 playable, 0 blocked
    grid,             \* [row][col] -> node, 0 = null
    gem,              \* node -> Gem component [type, row, col]
    op,               \* the method that ran last
    pre,              \* grid as it was when that method was entered (controller: when swapGems was)
    found,            \* nodes returned by the last findAllMatches
    ret,              \* boolean returned by the last method (found a move / moved)
    callbacks,        \* animateCallback invocations of the last gravity pass
    calls,            \* number of gravity passes run so far
    selectedGem,      \* Match3Game.selectedGem, 0 = null
    score,            \* Match3Game.score
    isProcessing,     \* Match3Game.isProcessing (the busy flag)
    rotationAngle,    \* Match3Game.rotationAngle
    remainingRotations, \* Match3Game.remainingRotations
    pc,               \* the await the running turn is suspended on, "idle" if none
    swapping,         \* <<gem1, gem2>> of the running swapGems, <<>> otherwise
    removing,         \* gems whose removal tween is running
    alive,            \* nodes that were created and not destroyed
    target,           \* event.target of the last onGemClicked that passed the busy check, 0 once the turn goes on
    rotations,        \* the accepted rotate requests, oldest first
    phases,           \* what the running rotation turn has done, up to its first scan
    tweens,           \* nodes whose position tween is running (0: the grid container)
    gemTypes,         \* Match3Game.gemTypes
    cursor,           \* cells initializeGrid has created a gem for, in row-major order
    rejected          \* draws wouldCreateMatch has turned down for the cell initializeGrid is at

vars == <<rows, cols, playablePattern, grid, gem, op, pre, found, ret, callbacks, calls,
          selectedGem, score, isProcessing, rotationAngle, remainingRotations,
          pc, swapping, removing, alive, target, rotations, phases, tweens,
          gemTypes, cursor, rejected>>

ctl == <<selectedGem, score, isProcessing, rotationAngle, remainingRotations,
         pc, swapping, removing, alive, tweens>>

(* the state of initializeGrid *)
generation == <<gemTypes, cursor, rejected>>

(* what the model records about the gestures *)
seen == <<target, rotations, phases>>

board == <<rows, cols, playablePattern, grid, gem>>

(***************************************************************************)
(* Bounds                                                                  *)
(***************************************************************************)
MaxDim == 5        \* longest side of a board handed to MatchValidator / GravityManager
MaxCells == 9      \* most cells of such a board
GemTypes == 2      \* gem types on those boards
MaxGaps == 2       \* most blocked or empty cells of a board handed to MatchValidator
MaxCalls == 2      \* longest sequence of gravity passes run on one board

NoController ==
    /\ selectedGem = 0
    /\ score = 0
    /\ isProcessing = FALSE
    /\ rotationAngle = 0
    /\ remainingRotations = 0
    /\ pc = "idle"
    /\ swapping = <<>>
    /\ removing = {}
    /\ alive = {}
    /\ target = 0
    /\ rotations = <<>>
    /\ phases = <<>>
    /\ tweens = {}
    /\ gemTypes = GemTypes
    /\ cursor = 0
    /\ rejected = 0

Shapes == {s \in (1..MaxDim) \X (1..MaxDim) : s[1] * s[2] <= MaxCells}

(* Content of a cell of an input board: blocked, playable and empty, or a gem type *)
BLOCKED == 0 - 2
EMPTY == 0 - 1

NullGem == [type |-> 0, row |-> 0, col |-> 0]

RowIdx == 0 .. rows - 1
ColIdx == 0 .. cols - 1

Max(a, b) == IF a >= b THEN a ELSE b

(***************************************************************************)
(* MatchValidator                                                          *)
(***************************************************************************)
typeOf(n) == gem[n].type

RECURSIVE hCountMutant(_, _, _, _)
hCountMutant(g, row, i, type) ==
    IF i >= cols THEN 0
    ELSE IF playablePattern[row][i] = 0 THEN hCountMutant(g, row, i + 1, type)
    ELSE IF g[row][i] # 0 /\ typeOf(g[row][i]) = type
         THEN 1 + hCountMutant(g, row, i + 1, type)
         ELSE 0

(* inner loop of the horizontal scan: gems of `type` from column i on, up to the
   first blocked, empty or other-type cell *)
RECURSIVE hCount(_, _, _, _)
hCount(g, row, i, type) ==
    IF i >= cols THEN 0
    ELSE IF playablePattern[row][i] = 0 THEN 0
    ELSE IF g[row][i] # 0 /\ typeOf(g[row][i]) = type
         THEN 1 + hCount(g, row, i + 1, type)
         ELSE 0

RECURSIVE vCount(_, _, _, _)
vCount(g, i, col, type) ==
    IF i >= rows THEN 0
    ELSE IF playablePattern[i][col] = 0 THEN 0
    ELSE IF g[i][col] # 0 /\ typeOf(g[i][col]) = type
         THEN 1 + vCount(g, i + 1, col, type)
         ELSE 0

horizontalMatches(g) ==
    UNION { IF g[row][col] = 0 \/ playablePattern[row][col] = 0 THEN {}
            ELSE LET matchLength == 1 + hCount(g, row, col + 1, typeOf(g[row][col]))
                 IN  IF matchLength >= 3
                     THEN {g[row][i] : i \in col .. col + matchLength - 1}
                     ELSE {}
            : row \in RowIdx, col \in 0 .. cols - 3 }

verticalMatches(g) ==
    UNION { IF g[row][col] = 0 \/ playablePattern[row][col] = 0 THEN {}
            ELSE LET matchLength == 1 + vCount(g, row + 1, col, typeOf(g[row][col]))
                 IN  IF matchLength >= 3
                     THEN {g[i][col] : i \in row .. row + matchLength - 1}
                     ELSE {}
            : col \in ColIdx, row \in 0 .. rows - 3 }

(* the Set of matched nodes; its cardinality is the length of the returned array *)
findAllMatches(g) == horizontalMatches(g) \cup verticalMatches(g)

(* ---- the array findAllMatches returns: Array.from(matches), the nodes in the
   order they were first added to the Set ---- *)
setAddAgain(seq, n) == Append(seq, n)

(* matches.add(n) *)
setAdd(seq, n) == IF \E i \in 1 .. Len(seq) : seq[i] = n THEN seq ELSE Append(seq, n)

RECURSIVE addAll(_, _)
addAll(seq, nodes) ==
    IF nodes = <<>> THEN seq ELSE addAll(setAdd(seq, Head(nodes)), Tail(nodes))

(* the nodes the horizontal scan adds for the start (row, col) *)
hRunAt(g, row, col) ==
    IF g[row][col] = 0 \/ playablePattern[row][col] = 0 THEN <<>>
    ELSE LET matchLength == 1 + hCount(g, row, col + 1, typeOf(g[row][col]))
         IN  IF matchLength >= 3 THEN [i \in 1 .. matchLength |-> g[row][col + i - 1]] ELSE <<>>

(* the nodes the vertical scan adds for the start (row, col) *)
vRunAt(g, row, col) ==
    IF g[row][col] = 0 \/ playablePattern[row][col] = 0 THEN <<>>
    ELSE LET matchLength == 1 + vCount(g, row + 1, col, typeOf(g[row][col]))
         IN  IF matchLength >= 3 THEN [i \in 1 .. matchLength |-> g[row + i - 1][col]] ELSE <<>>

(* for row = 0 .. rows-1, for col = 0 .. cols-3 *)
RECURSIVE scanRows(_, _, _, _)
scanRows(seq, g, row, col) ==
    IF row >= rows THEN seq
    ELSE IF col >= cols - 2 THEN scanRows(seq, g, row + 1, 0)
    ELSE scanRows(addAll(seq, hRunAt(g, row, col)), g, row, col + 1)

(* for col = 0 .. cols-1, for row = 0 .. rows-3 *)
RECURSIVE scanCols(_, _, _, _)
scanCols(seq, g, col, row) ==
    IF col >= cols THEN seq
    ELSE IF row >= rows - 2 THEN scanCols(seq, g, col + 1, 0)
    ELSE scanCols(addAll(seq, vRunAt(g, row, col)), g, col, row + 1)

findAllMatchesArray(g) == scanCols(scanRows(<<>>, g, 0, 0), g, 0, 0)

(* while-loops of checkMatchAtPosition: step d = -1 counts left / up, +1 right / down *)
RECURSIVE countRow(_, _, _, _, _)
countRow(g, row, c, d, gemType) ==
    IF c >= 0 /\ c < cols /\ g[row][c] # 0 /\ playablePattern[row][c] = 1
    THEN IF typeOf(g[row][c]) = gemType
         THEN 1 + countRow(g, row, c + d, d, gemType)
         ELSE 0
    ELSE 0

RECURSIVE countCol(_, _, _, _, _)
countCol(g, r, col, d, gemType) ==
    IF r >= 0 /\ r < rows /\ g[r][col] # 0 /\ playablePattern[r][col] = 1
    THEN IF typeOf(g[r][col]) = gemType
         THEN 1 + countCol(g, r + d, col, d, gemType)
         ELSE 0
    ELSE 0

checkMatchAtPositionRowOnly(g, row, col, gemType) ==
    1 + countRow(g, row, col - 1, 0 - 1, gemType) + countRow(g, row, col + 1, 1, gemType) >= 3

checkMatchAtPosition(g, row, col, gemType) ==
    LET hCnt == 1 + countRow(g, row, col - 1, 0 - 1, gemType)
                  + countRow(g, row, col + 1, 1, gemType)
        vCnt == 1 + countCol(g, row - 1, col, 0 - 1, gemType)
                  + countCol(g, row + 1, col, 1, gemType)
    IN  IF hCnt >= 3 THEN TRUE ELSE vCnt >= 3

swapSlots(g, row1, col1, row2, col2) ==
    [g EXCEPT ![row1][col1] = g[row2][col2], ![row2][col2] = g[row1][col1]]

isValidSwapNoRestore(g, row1, col1, row2, col2) ==
    LET gem1 == g[row1][col1]
        gem2 == g[row2][col2]
    IN  IF gem1 = 0 \/ gem2 = 0 THEN [ret |-> FALSE, grid |-> g]
        ELSE IF playablePattern[row1][col1] = 0 \/ playablePattern[row2][col2] = 0
        THEN [ret |-> FALSE, grid |-> g]
        ELSE LET swapped == swapSlots(g, row1, col1, row2, col2)
                 match1 == checkMatchAtPosition(swapped, row1, col1, typeOf(gem2))
                 match2 == checkMatchAtPosition(swapped, row2, col2, typeOf(gem1))
             IN  IF match1 \/ match2
                 THEN [ret |-> TRUE, grid |-> swapped]
                 ELSE [ret |-> FALSE, grid |-> [swapped EXCEPT ![row1][col1] = gem1, ![row2][col2] = gem2]]

(* returns the boolean and the grid the call leaves behind *)
isValidSwap(g, row1, col1, row2, col2) ==
    LET gem1 == g[row1][col1]
        gem2 == g[row2][col2]
    IN  IF gem1 = 0 \/ gem2 = 0 THEN [ret |-> FALSE, grid |-> g]
        ELSE IF playablePattern[row1][col1] = 0 \/ playablePattern[row2][col2] = 0
        THEN [ret |-> FALSE, grid |-> g]
        ELSE LET swapped == swapSlots(g, row1, col1, row2, col2)
                 match1 == checkMatchAtPosition(swapped, row1, col1, typeOf(gem2))
                 match2 == checkMatchAtPosition(swapped, row2, col2, typeOf(gem1))
                 back == [swapped EXCEPT ![row1][col1] = gem1, ![row2][col2] = gem2]
             IN  [ret |-> match1 \/ match2, grid |-> back]

(* the pairs in the order the two loop nests of hasValidMoves try them *)
swapPairs ==
    LET nh == rows * (cols - 1)
        nv == (rows - 1) * cols
    IN  [k \in 1 .. nh + nv |->
            IF k <= nh
            THEN LET row == (k - 1) \div (cols - 1)
                     col == (k - 1) % (cols - 1)
                 IN  <<row, col, row, col + 1>>
            ELSE LET row == (k - nh - 1) \div cols
                     col == (k - nh - 1) % cols
                 IN  <<row, col, row + 1, col>>]

RECURSIVE hasValidMovesFrom(_, _, _)
hasValidMovesFrom(g, pairs, k) ==
    IF k > Len(pairs) THEN [ret |-> FALSE, grid |-> g]
    ELSE LET r == isValidSwap(g, pairs[k][1], pairs[k][2], pairs[k][3], pairs[k][4])
         IN  IF r.ret THEN r ELSE hasValidMovesFrom(r.grid, pairs, k + 1)

hasValidMoves(g) == hasValidMovesFrom(g, swapPairs, 1)

(***************************************************************************)
(* Boards handed to the validator: any shape within the bounds, any mask,  *)
(* gems only on playable cells, one node per occupied cell.                *)
(***************************************************************************)
CellNode(r, c, w) == r * w + c + 1

BoardFrom(shape, content) ==
    /\ rows = shape[1]
    /\ cols = shape[2]
    /\ playablePattern = [r \in 0 .. shape[1] - 1 |-> [c \in 0 .. shape[2] - 1 |->
            IF content[CellNode(r, c, shape[2])] = BLOCKED THEN 0 ELSE 1]]
    /\ grid = [r \in 0 .. shape[1] - 1 |-> [c \in 0 .. shape[2] - 1 |->
            IF content[CellNode(r, c, shape[2])] >= 0 THEN CellNode(r, c, shape[2]) ELSE 0]]
    /\ gem = [n \in 1 .. MaxCells |->
            IF n <= shape[1] * shape[2] /\ content[n] >= 0
            THEN [type |-> content[n], row |-> (n - 1) \div shape[2], col |-> (n - 1) % shape[2]]
            ELSE NullGem]

InitMV ==
    /\ \E shape \in Shapes :
         \E content \in [1 .. shape[1] * shape[2] -> {BLOCKED, EMPTY} \cup (0 .. GemTypes - 1)] :
            /\ Cardinality({n \in DOMAIN content : content[n] < 0}) <= MaxGaps
            /\ BoardFrom(shape, content)
    /\ op = "new"
    /\ pre = grid
    /\ found = {}
    /\ ret = FALSE
    /\ callbacks = <<>>
    /\ calls = 0
    /\ NoController

CallFindAllMatchesClearing ==
    /\ op' = "findAllMatches"
    /\ pre' = grid
    /\ found' = findAllMatches(grid)
    /\ ret' = FALSE
    /\ grid' = [r \in RowIdx |-> [c \in ColIdx |->
                    IF grid[r][c] \in findAllMatches(grid) THEN 0 ELSE grid[r][c]]]
    /\ UNCHANGED <<rows, cols, playablePattern, gem, callbacks, calls, ctl, seen, generation>>

CallFindAllMatches ==
    /\ op' = "findAllMatches"
    /\ pre' = grid
    /\ found' = findAllMatches(grid)
    /\ ret' = FALSE
    /\ UNCHANGED <<board, callbacks, calls, ctl, seen, generation>>

CallHasValidMoves ==
    /\ op' = "hasValidMoves"
    /\ pre' = grid
    /\ LET r == hasValidMoves(grid)
       IN  /\ grid' = r.grid
           /\ ret' = r.ret
    /\ found' = {}
    /\ UNCHANGED <<rows, cols, playablePattern, gem, callbacks, calls, ctl, seen, generation>>

NextMV == CallFindAllMatches \/ CallHasValidMoves

SpecMV == InitMV /\ [][NextMV]_vars

(***************************************************************************)
(* GravityManager                                                          *)
(*                                                                         *)
(* A pass works line by line (a column for Down / Up, a row for Left /     *)
(* Right).  A line is the sequence of its cells <<row, col>> by increasing *)
(* index.  The running result of a pass is a record: grid, gem, anyMoved   *)
(* and the animateCallback invocations issued so far.                      *)
(***************************************************************************)
isPlayableCell(row, col) == playablePattern[row][col] = 1

isBlockedCell(row, col) == playablePattern[row][col] = 0

column(col) == [k \in 1 .. rows |-> <<k - 1, col>>]

rowLine(row) == [k \in 1 .. cols |-> <<row, k - 1>>]

(* a for-loop over the line that pushes the indices in S: S in increasing order *)
RECURSIVE ascending(_)
ascending(S) ==
    IF S = {} THEN <<>>
    ELSE LET m == CHOOSE x \in S : \A y \in S : x <= y
         IN  <<m>> \o ascending(S \ {m})

(* indices of the playable cells of the line, in order *)
playableIndices(line) ==
    ascending({k \in 1 .. Len(line) : isPlayableCell(line[k][1], line[k][2])})

(* gems.push({gem, originalRow}) for the playable, occupied cells of the line *)
collectGems(g, line) ==
    LET at == ascending({k \in 1 .. Len(line) :
                    g[line[k][1]][line[k][2]] # 0 /\ isPlayableCell(line[k][1], line[k][2])})
    IN  [i \in 1 .. Len(at) |-> [gem |-> g[line[at[i]][1]][line[at[i]][2]], original |-> at[i]]]

clearPlayableNone(g, line) == g

(* this.grid[..] = null for every playable cell of the line *)
clearPlayable(g, line) ==
    [r \in DOMAIN g |-> [c \in DOMAIN g[r] |->
        IF (\E k \in 1 .. Len(line) : line[k] = <<r, c>>) /\ isPlayableCell(r, c)
        THEN 0 ELSE g[r][c]]]

skipBlockedNone(line, k) == k

(* first index >= k of the line that is not blocked, Len(line) + 1 if none *)
RECURSIVE skipBlocked(_, _)
skipBlocked(line, k) ==
    IF k <= Len(line) /\ isBlockedCell(line[k][1], line[k][2])
    THEN skipBlocked(line, k + 1)
    ELSE k

firstPlayableAny(line) == IF Len(line) = 0 THEN 0 ELSE 1

(* first playable index of the line, 0 if none (writeRow = -1) *)
firstPlayable(line) ==
    LET at == playableIndices(line)
    IN  IF Len(at) = 0 THEN 0 ELSE at[1]

placeGemAlwaysCalls(st, line, entry, w) ==
    LET row == line[w][1]
        col == line[w][2]
        n == entry.gem
    IN  [grid |-> [st.grid EXCEPT ![row][col] = n],
         gem |-> [st.gem EXCEPT ![n].row = row, ![n].col = col],
         anyMoved |-> st.anyMoved \/ w # entry.original,
         callbacks |-> Append(st.callbacks, <<n, row, col>>)]

placeGemFlagged(st, line, entry, w) ==
    LET row == line[w][1]
        col == line[w][2]
        n == entry.gem
    IN  [grid |-> [st.grid EXCEPT ![row][col] = n],
         gem |-> [st.gem EXCEPT ![n].row = row, ![n].col = col],
         anyMoved |-> TRUE,
         callbacks |-> IF w # entry.original
                       THEN Append(st.callbacks, <<n, row, col>>)
                       ELSE st.callbacks]

(* one iteration of a placement loop: store the gem, update its component,
   issue the callback when the slot differs from the original one *)
placeGem(st, line, entry, w) ==
    LET row == line[w][1]
        col == line[w][2]
        n == entry.gem
    IN  [grid |-> [st.grid EXCEPT ![row][col] = n],
         gem |-> [st.gem EXCEPT ![n].row = row, ![n].col = col],
         anyMoved |-> st.anyMoved \/ w # entry.original,
         callbacks |-> IF w # entry.original
                       THEN Append(st.callbacks, <<n, row, col>>)
                       ELSE st.callbacks]

RECURSIVE placeFromLow(_, _, _, _, _)
placeFromLow(st, line, gems, i, w) ==
    IF i > Len(gems) THEN st
    ELSE IF w = 0 \/ w > Len(line) THEN st
    ELSE placeFromLow(placeGem(st, line, gems[i], w), line, gems, i + 1,
                      skipBlocked(line, w + 1))

(* body of the outer loop of applyDown / applyLeft for one line *)
packLow(st, line) ==
    LET gems == collectGems(st.grid, line)
        cleared == [st EXCEPT !.grid = clearPlayable(st.grid, line)]
        w == firstPlayable(line)
    IN  IF Len(gems) = 0 THEN st
        ELSE IF w = 0 THEN cleared
        ELSE placeFromLow(cleared, line, gems, 1, w)

(* gems[i] goes to playableCells[startIndex - i] *)
RECURSIVE placeFromHigh(_, _, _, _, _)
placeFromHigh(st, line, playableCells, gems, i) ==
    IF i >= Len(gems) THEN st
    ELSE LET targetCellIndex == (Len(playableCells) - 1) - i
         IN  IF targetCellIndex < 0 THEN st
             ELSE placeFromHigh(placeGem(st, line, gems[i + 1], playableCells[targetCellIndex + 1]),
                                line, playableCells, gems, i + 1)

(* body of the outer loop of applyUp / applyRight for one line *)
packHigh(st, line) ==
    LET playableCells == playableIndices(line)
        gems == collectGems(st.grid, line)
        cleared == [st EXCEPT !.grid =
                      [r \in DOMAIN st.grid |-> [c \in DOMAIN st.grid[r] |->
                          IF \E i \in 1 .. Len(gems) : line[gems[i].original] = <<r, c>>
                          THEN 0 ELSE st.grid[r][c]]]]
    IN  IF Len(playableCells) = 0 THEN st
        ELSE IF Len(gems) = 0 THEN st
        ELSE placeFromHigh(cleared, line, playableCells, gems, 0)

passStart(g, gm) == [grid |-> g, gem |-> gm, anyMoved |-> FALSE, callbacks |-> <<>>]

RECURSIVE applyDownFrom(_, _)
applyDownFrom(st, col) ==
    IF col >= cols THEN st ELSE applyDownFrom(packLow(st, column(col)), col + 1)

RECURSIVE applyLeftFrom(_, _)
applyLeftFrom(st, row) ==
    IF row >= rows THEN st ELSE applyLeftFrom(packLow(st, rowLine(row)), row + 1)

RECURSIVE applyUpFrom(_, _)
applyUpFrom(st, col) ==
    IF col >= cols THEN st ELSE applyUpFrom(packHigh(st, column(col)), col + 1)

RECURSIVE applyRightFrom(_, _)
applyRightFrom(st, row) ==
    IF row >= rows THEN st ELSE applyRightFrom(packHigh(st, rowLine(row)), row + 1)

applyDown(g, gm) == applyDownFrom(passStart(g, gm), 0)

applyLeft(g, gm) == applyLeftFrom(passStart(g, gm), 0)

applyUp(g, gm) == applyUpFrom(passStart(g, gm), 0)

applyRight(g, gm) == applyRightFrom(passStart(g, gm), 0)

(***************************************************************************)
(* Boards handed to the gravity manager: any shape within the bounds, any  *)
(* mask, any occupancy of the playable cells; passes in any order.         *)
(***************************************************************************)
InitGM ==
    /\ \E shape \in Shapes :
         \E content \in [1 .. shape[1] * shape[2] -> {BLOCKED, EMPTY, 0}] :
            BoardFrom(shape, content)
    /\ op = "new"
    /\ pre = grid
    /\ found = {}
    /\ ret = FALSE
    /\ callbacks = <<>>
    /\ calls = 0
    /\ NoController

Pass(name, st) ==
    /\ calls < MaxCalls
    /\ calls' = calls + 1
    /\ op' = name
    /\ pre' = grid
    /\ grid' = st.grid
    /\ gem' = st.gem
    /\ ret' = st.anyMoved
    /\ callbacks' = st.callbacks
    /\ UNCHANGED <<rows, cols, playablePattern, found, ctl, seen, generation>>

CallApplyDown == Pass("applyDown", applyDown(grid, gem))

CallApplyLeft == Pass("applyLeft", applyLeft(grid, gem))

CallApplyUp == Pass("applyUp", applyUp(grid, gem))

CallApplyRight == Pass("applyRight", applyRight(grid, gem))

NextGM == CallApplyDown \/ CallApplyLeft \/ CallApplyUp \/ CallApplyRight

SpecGM == InitGM /\ [][NextGM]_vars

(***************************************************************************)
(* Match3Game                                                              *)
(*                                                                         *)
(* The controller keeps no mask: every cell is playable.  It scans and     *)
(* applies gravity with its own methods.  A turn (swapGems, rotateBoard)   *)
(* is an async function: it runs up to an await, the handler returns, and  *)
(* the turn resumes when the awaited animations have completed; pc names   *)
(* the await.  Gestures may arrive between any two such steps.             *)
(***************************************************************************)
CtlRows == 3         \* most rows of the controller's board
CtlCols == 4         \* most cols of the controller's board
CtlCells == 9        \* most cells of the controller's board
MaxRotations == 1    \* maxRotations
MaxScore == 60       \* no cascade step is taken that would lift the score above this
ExtraNodes == 2      \* nodes that can exist beyond one per cell

(* rows and cols are properties of the component, set before start() *)
CtlShapes == {s \in (1 .. CtlRows) \X (1 .. CtlCols) : s[1] * s[2] <= CtlCells}

Nodes == 1 .. rows * cols + ExtraNodes

RECURSIVE hCountGame(_, _, _, _)
hCountGame(g, row, i, type) ==
    IF i >= cols THEN 0
    ELSE IF g[row][i] # 0 /\ typeOf(g[row][i]) = type
         THEN 1 + hCountGame(g, row, i + 1, type)
         ELSE 0

RECURSIVE vCountGame(_, _, _, _)
vCountGame(g, i, col, type) ==
    IF i >= rows THEN 0
    ELSE IF g[i][col] # 0 /\ typeOf(g[i][col]) = type
         THEN 1 + vCountGame(g, i + 1, col, type)
         ELSE 0

(* Match3Game.findAllMatches: the Set of matched nodes *)
findAllMatchesGame(g) ==
    UNION { IF g[row][col] = 0 THEN {}
            ELSE LET matchLength == 1 + hCountGame(g, row, col + 1, typeOf(g[row][col]))
                 IN  IF matchLength >= 3
                     THEN {g[row][i] : i \in col .. col + matchLength - 1}
                     ELSE {}
            : row \in RowIdx, col \in 0 .. cols - 3 }
    \cup
    UNION { IF g[row][col] = 0 THEN {}
            ELSE LET matchLength == 1 + vCountGame(g, row + 1, col, typeOf(g[row][col]))
                 IN  IF matchLength >= 3
                     THEN {g[i][col] : i \in row .. row + matchLength - 1}
                     ELSE {}
            : col \in ColIdx, row \in 0 .. rows - 3 }

wouldCreateMatchGameRowOnly(g, gm, row, col, gemType) ==
    /\ col >= 2
    /\ g[row][col - 1] # 0 /\ gm[g[row][col - 1]].type = gemType
    /\ g[row][col - 2] # 0 /\ gm[g[row][col - 2]].type = gemType

(* Match3Game.wouldCreateMatch; the type of a null slot is undefined and equals no type *)
wouldCreateMatchGame(g, gm, row, col, gemType) ==
    \/ /\ col >= 2
       /\ g[row][col - 1] # 0 /\ gm[g[row][col - 1]].type = gemType
       /\ g[row][col - 2] # 0 /\ gm[g[row][col - 2]].type = gemType
    \/ /\ row >= 2
       /\ g[row - 1][col] # 0 /\ gm[g[row - 1][col]].type = gemType
       /\ g[row - 2][col] # 0 /\ gm[g[row - 2][col]].type = gemType

areAdjacent(row1, col1, row2, col2) ==
    LET rowDiff == IF row1 >= row2 THEN row1 - row2 ELSE row2 - row1
        colDiff == IF col1 >= col2 THEN col1 - col2 ELSE col2 - col1
    IN  (rowDiff = 1 /\ colDiff = 0) \/ (rowDiff = 0 /\ colDiff = 1)

(* ---- the controller's gravity: each gem slides, in loop order, to the far end of
   the run of empty slots next to it ---- *)
gravityStart(g, gm) == [grid |-> g, gem |-> gm, moved |-> FALSE]

(* targetRow / targetCol after the while-loop: from index t step d while in range
   and the slot is empty, then one step back *)
RECURSIVE slideRow(_, _, _, _)
slideRow(g, t, col, d) ==
    IF t >= 0 /\ t < rows /\ g[t][col] = 0 THEN slideRow(g, t + d, col, d) ELSE t - d

RECURSIVE slideCol(_, _, _, _)
slideCol(g, row, t, d) ==
    IF t >= 0 /\ t < cols /\ g[row][t] = 0 THEN slideCol(g, row, t + d, d) ELSE t - d

(* body of the inner loop of applyDownGravity (d = -1) / applyUpGravity (d = 1) *)
slideGemInColumn(st, row, col, d) ==
    IF st.grid[row][col] = 0 THEN st
    ELSE LET targetRow == slideRow(st.grid, row + d, col, d)
             n == st.grid[row][col]
         IN  IF targetRow # row
             THEN [grid |-> [st.grid EXCEPT ![row][col] = 0, ![targetRow][col] = n],
                   gem |-> [st.gem EXCEPT ![n].row = targetRow],
                   moved |-> TRUE]
             ELSE st

(* the inner loop of a sideways pass without its gemComp.col = targetCol *)
slideGemInRowStale(st, row, col, d) ==
    IF st.grid[row][col] = 0 THEN st
    ELSE LET targetCol == slideCol(st.grid, row, col + d, d)
             n == st.grid[row][col]
         IN  IF targetCol # col
             THEN [grid |-> [st.grid EXCEPT ![row][col] = 0, ![row][targetCol] = n],
                   gem |-> st.gem,
                   moved |-> TRUE]
             ELSE st

(* body of the inner loop of applyLeftGravity (d = -1) / applyRightGravity (d = 1) *)
slideGemInRow(st, row, col, d) ==
    IF st.grid[row][col] = 0 THEN st
    ELSE LET targetCol == slideCol(st.grid, row, col + d, d)
             n == st.grid[row][col]
         IN  IF targetCol # col
             THEN [grid |-> [st.grid EXCEPT ![row][col] = 0, ![row][targetCol] = n],
                   gem |-> [st.gem EXCEPT ![n].col = targetCol],
                   moved |-> TRUE]
             ELSE st

(* for col = 0 .. cols-1, for row = 1 .. rows-1 *)
RECURSIVE applyDownGravityFrom(_, _, _)
applyDownGravityFrom(st, col, row) ==
    IF col >= cols THEN st
    ELSE IF row >= rows THEN applyDownGravityFrom(st, col + 1, 1)
    ELSE applyDownGravityFrom(slideGemInColumn(st, row, col, 0 - 1), col, row + 1)

(* for row = 0 .. rows-1, for col = 1 .. cols-1 *)
RECURSIVE applyLeftGravityFrom(_, _, _)
applyLeftGravityFrom(st, row, col) ==
    IF row >= rows THEN st
    ELSE IF col >= cols THEN applyLeftGravityFrom(st, row + 1, 1)
    ELSE applyLeftGravityFrom(slideGemInRow(st, row, col, 0 - 1), row, col + 1)

(* for col = 0 .. cols-1, for row = rows-2 .. 0 *)
RECURSIVE applyUpGravityFrom(_, _, _)
applyUpGravityFrom(st, col, row) ==
    IF col >= cols THEN st
    ELSE IF row < 0 THEN applyUpGravityFrom(st, col + 1, rows - 2)
    ELSE applyUpGravityFrom(slideGemInColumn(st, row, col, 1), col, row - 1)

(* for row = 0 .. rows-1, for col = cols-2 .. 0 *)
RECURSIVE applyRightGravityFrom(_, _, _)
applyRightGravityFrom(st, row, col) ==
    IF row >= rows THEN st
    ELSE IF col < 0 THEN applyRightGravityFrom(st, row + 1, cols - 2)
    ELSE applyRightGravityFrom(slideGemInRow(st, row, col, 1), row, col - 1)

applyDownGravity(g, gm) == applyDownGravityFrom(gravityStart(g, gm), 0, 1)

applyLeftGravity(g, gm) == applyLeftGravityFrom(gravityStart(g, gm), 0, 1)

applyUpGravity(g, gm) == applyUpGravityFrom(gravityStart(g, gm), 0, rows - 2)

applyRightGravity(g, gm) == applyRightGravityFrom(gravityStart(g, gm), 0, cols - 2)

directionalGravityMirrored(angle, g, gm) ==
    CASE angle = 0 -> applyDownGravity(g, gm)
      [] angle = 90 -> applyRightGravity(g, gm)
      [] angle = 180 -> applyUpGravity(g, gm)
      [] angle = 270 -> applyLeftGravity(g, gm)
      [] OTHER -> gravityStart(g, gm)

(* the switch of applyGravity; no case matches an angle outside the table *)
directionalGravity(angle, g, gm) ==
    CASE angle = 0 -> applyDownGravity(g, gm)
      [] angle = 90 -> applyLeftGravity(g, gm)
      [] angle = 180 -> applyUpGravity(g, gm)
      [] angle = 270 -> applyRightGravity(g, gm)
      [] OTHER -> gravityStart(g, gm)

(* ---- creation of gems ---- *)
EmptyCells(g) == {q \in RowIdx \X ColIdx : g[q[1]][q[2]] = 0}

NodesIn(g) == {g[r][c] : r \in RowIdx, c \in ColIdx} \ {0}

(* nodes something still refers to *)
Referenced(g, sel, live, rem, sw) ==
    NodesIn(g) \cup live \cup rem \cup ({sel} \ {0}) \cup {sw[i] : i \in DOMAIN sw}

(* instantiate(): a node nothing refers to *)
freshNode(used) == CHOOSE n \in Nodes \ used : \A m \in Nodes \ used : n <= m

(* position of a cell in the loop nest of the fill method of the angle: fillFromTop
   (columns, rows downwards), fillFromRight (rows, columns downwards), fillFromBottom
   (columns, rows upwards), fillFromLeft (rows, columns upwards) *)
fillOrder(angle, q) ==
    CASE angle = 0 -> q[2] * rows + (rows - 1 - q[1])
      [] angle = 90 -> q[1] * cols + (cols - 1 - q[2])
      [] angle = 180 -> q[2] * rows + q[1]
      [] OTHER -> q[1] * cols + q[2]

(* createGem for the empty cells in loop order; types[q] is the random type drawn
   for cell q *)
RECURSIVE fillCells(_, _, _, _, _)
fillCells(st, todo, angle, types, used) ==
    IF todo = {} THEN st
    ELSE LET q == CHOOSE x \in todo : \A y \in todo : fillOrder(angle, x) <= fillOrder(angle, y)
             n == freshNode(used)
         IN  fillCells([grid |-> [st.grid EXCEPT ![q[1]][q[2]] = n],
                        gem |-> [st.gem EXCEPT ![n] = [type |-> types[q], row |-> q[1], col |-> q[2]]],
                        created |-> st.created \cup {n}],
                       todo \ {q}, angle, types, used \cup {n})

(* the fill method runs for the angles of the table only *)
fillEmptySpaces(angle, g, gm, types, used) ==
    IF angle \in {0, 90, 180, 270}
    THEN fillCells([grid |-> g, gem |-> gm, created |-> {}], EmptyCells(g), angle, types, used)
    ELSE [grid |-> g, gem |-> gm, created |-> {}]

(* components of nodes nothing refers to any more are gone *)
collected(gm, refs) == [n \in DOMAIN gm |-> IF n \in refs THEN gm[n] ELSE NullGem]

(* ---- start(): remainingRotations = maxRotations, initializeGrid() ---- *)
(* rows, cols and maxRotations are properties of the component; initializeGrid
   draws a type for each cell in row-major order until wouldCreateMatch is false *)
StartGame(shapes, maxRotations) ==
    /\ \E s \in shapes : rows = s[1] /\ cols = s[2]
    /\ playablePattern = [r \in 0 .. rows - 1 |-> [c \in 0 .. cols - 1 |-> 1]]
    /\ grid = [r \in 0 .. rows - 1 |-> [c \in 0 .. cols - 1 |-> CellNode(r, c, cols)]]
    /\ \E types \in [1 .. rows * cols -> 0 .. GemTypes - 1] :
          gem = [n \in Nodes |->
                   IF n <= rows * cols
                   THEN [type |-> types[n], row |-> (n - 1) \div cols, col |-> (n - 1) % cols]
                   ELSE NullGem]
    /\ \A r \in RowIdx, c \in ColIdx : ~ wouldCreateMatchGame(grid, gem, r, c, typeOf(grid[r][c]))
    /\ alive = 1 .. rows * cols
    /\ selectedGem = 0
    /\ score = 0
    /\ isProcessing = FALSE
    /\ rotationAngle = 0
    /\ remainingRotations = maxRotations
    /\ pc = "idle"
    /\ swapping = <<>>
    /\ removing = {}
    /\ op = "start"
    /\ pre = <<>>
    /\ found = {}
    /\ ret = FALSE
    /\ callbacks = <<>>
    /\ calls = 0
    /\ target = 0
    /\ rotations = <<>>
    /\ phases = <<>>
    /\ tweens = {}
    /\ gemTypes = GemTypes
    /\ cursor = rows * cols
    /\ rejected = 0

InitGame == StartGame(CtlShapes, MaxRotations)

fixed == <<rows, cols, playablePattern, found, callbacks, calls, generation>>

(* ---- swapGems up to its first await ---- *)
swapComponents(gm, gem1, gem2) ==
    [gm EXCEPT ![gem1].row = gm[gem2].row, ![gem1].col = gm[gem2].col,
               ![gem2].row = gm[gem1].row, ![gem2].col = gm[gem1].col]

(* this.grid[comp1.row][comp1.col] = gem1; this.grid[comp2.row][comp2.col] = gem2 *)
storeBoth(g, gm, gem1, gem2) ==
    LET g1 == [g EXCEPT ![gm[gem1].row][gm[gem1].col] = gem1]
    IN  [g1 EXCEPT ![gm[gem2].row][gm[gem2].col] = gem2]

SwapGemsBegin(gem1, gem2) ==
    LET gm == swapComponents(gem, gem1, gem2)
    IN  /\ isProcessing' = TRUE
        /\ gem' = gm
        /\ grid' = storeBoth(grid, gm, gem1, gem2)
        /\ swapping' = <<gem1, gem2>>
        /\ pc' = "animateSwap"
        /\ tweens' = {gem1, gem2}
        /\ selectedGem' = 0
        /\ UNCHANGED <<score, rotationAngle, remainingRotations, removing, alive, ret>>

(* ---- onGemClicked: a touch ends on a gem that is in the scene ---- *)
ClickIgnored == UNCHANGED <<grid, gem, ctl, ret>>

ClickSelects(clickedGem) ==
    /\ selectedGem' = clickedGem
    /\ gem' = collected(gem, Referenced(grid, clickedGem, alive, removing, swapping))
    /\ UNCHANGED <<grid, score, isProcessing, rotationAngle, remainingRotations,
                   pc, swapping, removing, alive, tweens, ret>>

ClickDeselects ==
    /\ selectedGem' = 0
    /\ gem' = collected(gem, Referenced(grid, 0, alive, removing, swapping))
    /\ UNCHANGED <<grid, score, isProcessing, rotationAngle, remainingRotations,
                   pc, swapping, removing, alive, tweens, ret>>

(* from line 485 on: both components are read *)
ClickSecond(clickedGem) ==
    IF areAdjacent(gem[selectedGem].row, gem[selectedGem].col,
                   gem[clickedGem].row, gem[clickedGem].col)
    THEN SwapGemsBegin(selectedGem, clickedGem)
    ELSE ClickSelects(clickedGem)

(* what the model records of a click: the board a swap started from (kept until
   the scan of that swap finds a match or the turn ends), the target *)
ClickSeen(clickedGem, passed) ==
    /\ pre' = IF pc = "idle" /\ pc' = "animateSwap" THEN grid ELSE pre
    /\ target' = IF passed THEN clickedGem ELSE target
    /\ UNCHANGED <<rotations, phases>>

onGemClickedUnguarded(clickedGem) ==
    /\ op' = "onGemClicked"
    /\ UNCHANGED fixed
    /\ IF selectedGem = 0 THEN ClickSelects(clickedGem)
       ELSE IF selectedGem = clickedGem THEN ClickDeselects
       ELSE ClickSecond(clickedGem)
    /\ ClickSeen(clickedGem, TRUE)

onGemClicked(clickedGem) ==
    /\ op' = "onGemClicked"
    /\ UNCHANGED fixed
    /\ IF isProcessing THEN ClickIgnored
       ELSE IF selectedGem = 0 THEN ClickSelects(clickedGem)
       ELSE IF selectedGem = clickedGem THEN ClickDeselects
       ELSE IF selectedGem \in alive THEN ClickSecond(clickedGem)
       ELSE \* the selected node was destroyed: getComponent on it either throws,
            \* which ends the handler, or still yields the component it had
            \/ ClickIgnored
            \/ ClickSecond(clickedGem)
    /\ ClickSeen(clickedGem, ~ isProcessing)

OnGemClicked == \E clickedGem \in alive : onGemClicked(clickedGem)

rotateBoardOffByOne(degrees) ==
    /\ op' = "rotateBoard"
    /\ UNCHANGED fixed
    /\ IF isProcessing \/ remainingRotations < 0
       THEN UNCHANGED <<grid, gem, ctl, ret, pre, seen>>
       ELSE /\ isProcessing' = TRUE
            /\ remainingRotations' = remainingRotations - 1
            /\ rotationAngle' = (rotationAngle + degrees + 360) % 360
            /\ pc' = "animateRotation"
            /\ tweens' = {0}
            /\ rotations' = Append(rotations, [degrees |-> degrees,
                                               from |-> rotationAngle,
                                               to |-> rotationAngle',
                                               budget |-> remainingRotations])
            /\ target' = 0
            /\ UNCHANGED <<grid, gem, selectedGem, score, swapping, removing, alive, ret, pre, phases>>

rotateBoardNoBudget(degrees) ==
    /\ op' = "rotateBoard"
    /\ UNCHANGED fixed
    /\ IF isProcessing
       THEN UNCHANGED <<grid, gem, ctl, ret, pre, seen>>
       ELSE /\ isProcessing' = TRUE
            /\ remainingRotations' = remainingRotations - 1
            /\ rotationAngle' = (rotationAngle + degrees + 360) % 360
            /\ pc' = "animateRotation"
            /\ tweens' = {0}
            /\ rotations' = Append(rotations, [degrees |-> degrees,
                                               from |-> rotationAngle,
                                               to |-> rotationAngle',
                                               budget |-> remainingRotations])
            /\ target' = 0
            /\ UNCHANGED <<grid, gem, selectedGem, score, swapping, removing, alive, ret, pre, phases>>

rotateBoardUnguarded(degrees) ==
    /\ op' = "rotateBoard"
    /\ UNCHANGED fixed
    /\ IF remainingRotations <= 0
       THEN UNCHANGED <<grid, gem, ctl, ret, pre, seen>>
       ELSE /\ isProcessing' = TRUE
            /\ remainingRotations' = remainingRotations - 1
            /\ rotationAngle' = (rotationAngle + degrees + 360) % 360
            /\ pc' = "animateRotation"
            /\ tweens' = {0}
            /\ rotations' = Append(rotations, [degrees |-> degrees,
                                               from |-> rotationAngle,
                                               to |-> rotationAngle',
                                               budget |-> remainingRotations])
            /\ target' = 0
            /\ UNCHANGED <<grid, gem, selectedGem, score, swapping, removing, alive, ret, pre, phases>>

rotateBoardNoWrap(degrees) ==
    /\ op' = "rotateBoard"
    /\ UNCHANGED fixed
    /\ IF isProcessing \/ remainingRotations <= 0
       THEN UNCHANGED <<grid, gem, ctl, ret, pre, seen>>
       ELSE /\ isProcessing' = TRUE
            /\ remainingRotations' = remainingRotations - 1
            /\ rotationAngle' = rotationAngle + degrees
            /\ pc' = "animateRotation"
            /\ tweens' = {0}
            /\ rotations' = Append(rotations, [degrees |-> degrees,
                                               from |-> rotationAngle,
                                               to |-> rotationAngle',
                                               budget |-> remainingRotations])
            /\ target' = 0
            /\ UNCHANGED <<grid, gem, selectedGem, score, swapping, removing, alive, ret, pre, phases>>

(* ---- rotateBoard up to its first await ---- *)
rotateBoard(degrees) ==
    /\ op' = "rotateBoard"
    /\ UNCHANGED fixed
    /\ IF isProcessing \/ remainingRotations <= 0
       THEN UNCHANGED <<grid, gem, ctl, ret, pre, seen>>
       ELSE /\ isProcessing' = TRUE
            /\ remainingRotations' = remainingRotations - 1
            /\ rotationAngle' = (rotationAngle + degrees + 360) % 360
            /\ pc' = "animateRotation"
            /\ tweens' = {0}
            /\ rotations' = Append(rotations, [degrees |-> degrees,
                                               from |-> rotationAngle,
                                               to |-> rotationAngle',
                                               budget |-> remainingRotations])
            /\ target' = 0
            /\ UNCHANGED <<grid, gem, selectedGem, score, swapping, removing, alive, ret, pre, phases>>

RotateBoard == \E degrees \in {0 - 90, 90} : rotateBoard(degrees)

(* ---- the rest of a turn ---- *)
(* removeGems up to the return of its promise: the slot named by each gem's
   component is emptied *)
RECURSIVE removeSlots(_, _)
removeSlots(g, gems) ==
    IF gems = {} THEN g
    ELSE LET n == CHOOSE x \in gems : TRUE
         IN  removeSlots([g EXCEPT ![gem[n].row][gem[n].col] = 0], gems \ {n})

ProcessMatchesBeginFlat(matches) ==
    /\ score + 30 <= MaxScore
    /\ score' = score + 30
    /\ grid' = removeSlots(grid, matches)
    /\ removing' = matches
    /\ tweens' = {}
    /\ pc' = "removeGems"
    /\ UNCHANGED <<gem, selectedGem, isProcessing, rotationAngle, remainingRotations,
                   swapping, alive, ret>>

ProcessMatchesBeginAssign(matches) ==
    /\ Cardinality(matches) * 10 <= MaxScore
    /\ score' = Cardinality(matches) * 10
    /\ grid' = removeSlots(grid, matches)
    /\ removing' = matches
    /\ tweens' = {}
    /\ pc' = "removeGems"
    /\ UNCHANGED <<gem, selectedGem, isProcessing, rotationAngle, remainingRotations,
                   swapping, alive, ret>>

(* processMatches up to the await of removeGems *)
ProcessMatchesBegin(matches) ==
    /\ score + Cardinality(matches) * 10 <= MaxScore
    /\ score' = score + Cardinality(matches) * 10
    /\ grid' = removeSlots(grid, matches)
    /\ removing' = matches
    /\ tweens' = {}
    /\ pc' = "removeGems"
    /\ UNCHANGED <<gem, selectedGem, isProcessing, rotationAngle, remainingRotations,
                   swapping, alive, ret>>

(* Nodes are compared for identity only, so the model keeps states up to a
   renaming of the nodes: at the end of a turn the nodes still referred to are
   renumbered, those on the grid first in row-major order of their slot, the others
   by their component. *)
nodeKey(g, gm, live, n) ==
    IF n \in NodesIn(g)
    THEN LET q == CHOOSE x \in RowIdx \X ColIdx :
                    /\ g[x[1]][x[2]] = n
                    /\ \A y \in RowIdx \X ColIdx :
                          g[y[1]][y[2]] = n => x[1] * cols + x[2] <= y[1] * cols + y[2]
         IN  q[1] * cols + q[2]
    ELSE rows * cols
         + ((gm[n].row * cols + gm[n].col) * GemTypes + gm[n].type) * 2
         + (IF n \in live THEN 1 ELSE 0)

renumberBy(key) ==
    [n \in DOMAIN key |->
        1 + Cardinality({m \in DOMAIN key : key[m] < key[n] \/ (key[m] = key[n] /\ m < n)})]

renumbering(g, gm, live, refs) ==
    CHOOSE new \in {renumberBy(key) : key \in {[n \in refs |-> nodeKey(g, gm, live, n)]}} : TRUE

TurnEndsAs(new) ==
    /\ isProcessing' = FALSE
    /\ pc' = "idle"
    /\ swapping' = <<>>
    /\ tweens' = {}
    /\ grid' = [r \in RowIdx |-> [c \in ColIdx |->
                    IF grid[r][c] = 0 THEN 0 ELSE new[grid[r][c]]]]
    /\ gem' = [m \in DOMAIN gem |->
                    IF \E n \in DOMAIN new : new[n] = m
                    THEN gem[CHOOSE n \in DOMAIN new : new[n] = m]
                    ELSE NullGem]
    /\ selectedGem' = IF selectedGem = 0 THEN 0 ELSE new[selectedGem]
    /\ alive' = {new[n] : n \in alive}
    /\ UNCHANGED <<score, rotationAngle, remainingRotations, removing, ret>>

TurnEndsBusy ==
    /\ pc' = "idle"
    /\ swapping' = <<>>
    /\ tweens' = {}
    /\ UNCHANGED <<grid, gem, selectedGem, alive, isProcessing,
                   score, rotationAngle, remainingRotations, removing, ret>>

(* the turn is over: isProcessing = false *)
TurnEnds ==
    \E new \in {renumbering(grid, gem, alive, Referenced(grid, selectedGem, alive, {}, <<>>))} :
        TurnEndsAs(new)

(* const matches = this.findAllMatches(); if (matches.length > 0) processMatches *)
ScanAndProcess ==
    LET matches == findAllMatchesGame(grid)
    IN  IF matches # {} THEN ProcessMatchesBegin(matches) ELSE TurnEnds

(* the gems a pass has started animateGemToGridPosition for: those it stored in
   another slot *)
movedGems(g, h) ==
    {h[q[1]][q[2]] : q \in {x \in RowIdx \X ColIdx :
                                h[x[1]][x[2]] # 0 /\ h[x[1]][x[2]] # g[x[1]][x[2]]}}

(* applyGravity up to the await of the directional pass *)
ApplyGravityBegin(live) ==
    LET st == directionalGravity(rotationAngle, grid, gem)
    IN  /\ grid' = st.grid
        /\ gem' = collected(st.gem, Referenced(st.grid, selectedGem, live, {}, swapping))
        /\ ret' = st.moved
        /\ tweens' = movedGems(grid, st.grid)
        /\ pc' = "gravity"

(* swapGems after animateSwap *)
SwapAnimated ==
    /\ pc = "animateSwap"
    /\ LET matches == findAllMatchesGame(grid)
       IN  IF matches # {}
           THEN ProcessMatchesBegin(matches)
           ELSE LET gm == swapComponents(gem, swapping[1], swapping[2])
                IN  /\ gem' = gm
                    /\ grid' = storeBoth(grid, gm, swapping[1], swapping[2])
                    /\ pc' = "animateSwapBack"
                    /\ tweens' = {swapping[1], swapping[2]}
                    /\ UNCHANGED <<selectedGem, score, isProcessing, rotationAngle,
                                   remainingRotations, swapping, removing, alive, ret>>

(* swapGems after the second animateSwap *)
SwapBackAnimated ==
    /\ pc = "animateSwapBack"
    /\ TurnEnds

(* rotateBoard after animateRotation *)
RotationAnimated ==
    /\ pc = "animateRotation"
    /\ ApplyGravityBegin(alive)
    /\ UNCHANGED <<selectedGem, score, isProcessing, rotationAngle, remainingRotations,
                   swapping, removing, alive>>

(* every removal tween has run: the gems are destroyed, processMatches goes on
   to applyGravity *)
GemsRemoved ==
    /\ pc = "removeGems"
    /\ alive' = alive \ removing
    /\ removing' = {}
    /\ ApplyGravityBegin(alive \ removing)
    /\ UNCHANGED <<selectedGem, score, isProcessing, rotationAngle, remainingRotations,
                   swapping>>

(* applyGravity after the directional pass: fill and run again if gems moved,
   otherwise return to the scan of the caller *)
GravityAnimated ==
    /\ pc = "gravity"
    /\ IF ret
       THEN LET used == Referenced(grid, selectedGem, alive, removing, swapping)
                todo == EmptyCells(grid)
            IN  /\ Cardinality(Nodes \ used) >= Cardinality(todo)
                /\ \E types \in [todo -> 0 .. GemTypes - 1] :
                      LET st == fillEmptySpaces(rotationAngle, grid, gem, types, used)
                      IN  /\ grid' = st.grid
                          /\ gem' = st.gem
                          /\ alive' = alive \cup st.created
                          /\ tweens' = st.created
                /\ pc' = "fill"
                /\ UNCHANGED <<selectedGem, score, isProcessing, rotationAngle,
                               remainingRotations, swapping, removing, ret>>
       ELSE ScanAndProcess

(* applyGravity after fillEmptySpaces: applyGravity again *)
FillAnimated ==
    /\ pc = "fill"
    /\ ApplyGravityBegin(alive)
    /\ UNCHANGED <<selectedGem, score, isProcessing, rotationAngle, remainingRotations,
                   swapping, removing, alive>>

(* what the model records of a rotation turn: the passes and fills it runs before
   its first scan, and that scan when it finds a match *)
phasesAfter(next) ==
    IF next = "idle" THEN <<>>
    ELSE IF swapping # <<>> \/ (Len(phases) > 0 /\ phases[Len(phases)] = "scan") THEN phases
    ELSE IF pc = "gravity" /\ next = "removeGems" THEN Append(phases, "scan")
    ELSE Append(phases, next)

Resume ==
    /\ op' = "resume"
    /\ UNCHANGED fixed
    /\ pre' = IF pc = "animateSwap" /\ findAllMatchesGame(grid) = {} THEN pre ELSE <<>>
    /\ target' = 0
    /\ UNCHANGED rotations
    /\ \/ SwapAnimated
       \/ SwapBackAnimated
       \/ RotationAnimated
       \/ GemsRemoved
       \/ GravityAnimated
       \/ FillAnimated
    /\ phases' = phasesAfter(pc')

Next == OnGemClicked \/ RotateBoard \/ Resume

Spec == InitGame /\ [][Next]_vars

(***************************************************************************)
(* The same game on the smaller boards, with a rotation budget that allows *)
(* a full cycle of the board                                               *)
(***************************************************************************)
RotCells == 6        \* most cells of a board of this game
RotBudget == 4       \* maxRotations of this game

RotShapes == {s \in CtlShapes : s[1] * s[2] <= RotCells}

InitRot == StartGame(RotShapes, RotBudget)

SpecRot == InitRot /\ [][Next]_vars

(***************************************************************************)
(* The same game with the animations of an await completing one at a time: *)
(* a removal tween destroys its gem and counts it, a position tween        *)
(* resolves its promise; the turn goes on with the last of them            *)
(***************************************************************************)
AnimBudget == 2      \* maxRotations of this game

(* the animations the running turn waits for *)
running == tweens \cup removing

allCompletedFirst(left) == TRUE

(* Promise.all(promises) / completed === gems.length / completed === 2: the
   awaited promise is settled when no animation of the await is left *)
allCompleted(left) == left = {}

(* the callback of one animation that is not the last of its await *)
tweenCompletes(n) ==
    /\ ~ allCompleted(running \ {n})
    /\ op' = "tween"
    /\ tweens' = tweens \ {n}
    /\ removing' = removing \ {n}
    /\ alive' = IF n \in removing THEN alive \ {n} ELSE alive
    /\ UNCHANGED <<fixed, grid, gem, pre, ret, seen, selectedGem, score, isProcessing,
                   rotationAngle, remainingRotations, pc, swapping>>

TweenCompletes == \E n \in running : tweenCompletes(n)

(* the callback of the last animation of the await, or an await of no animation:
   the turn goes on *)
AwaitOver ==
    /\ \/ running = {}
       \/ \E n \in running : allCompleted(running \ {n})
    /\ Resume

InitAnim == StartGame(RotShapes, AnimBudget)

NextAnim == OnGemClicked \/ RotateBoard \/ TweenCompletes \/ AwaitOver

SpecAnim == InitAnim /\ [][NextAnim]_vars

(* the boards of at most LiveCells cells; every animation that was started
   completes, and the turn goes on when the promise it awaits is settled *)
LiveCells == 4
LiveBudget == 1      \* maxRotations of this game

LiveShapes == {s \in CtlShapes : s[1] * s[2] <= LiveCells}

InitLive == StartGame(LiveShapes, LiveBudget)

SpecLive == InitLive /\ [][NextAnim]_vars /\ WF_vars(TweenCompletes) /\ WF_vars(AwaitOver)

(***************************************************************************)
(* initializeGrid draw by draw: for each cell in row-major order a type is *)
(* drawn until wouldCreateMatch turns none down, then the gem is created   *)
(***************************************************************************)
RetryCeiling == 50   \* draws that may be turned down for one cell
MaxDraws == RetryCeiling + 1   \* the model stops drawing for a cell after this many

InitGen ==
    /\ \E s \in RotShapes : rows = s[1] /\ cols = s[2]
    /\ playablePattern = [r \in 0 .. rows - 1 |-> [c \in 0 .. cols - 1 |-> 1]]
    /\ grid = [r \in 0 .. rows - 1 |-> [c \in 0 .. cols - 1 |-> 0]]
    /\ gem = [n \in Nodes |-> NullGem]
    /\ gemTypes \in 1 .. GemTypes
    /\ cursor = 0
    /\ rejected = 0
    /\ alive = {}
    /\ selectedGem = 0
    /\ score = 0
    /\ isProcessing = FALSE
    /\ rotationAngle = 0
    /\ remainingRotations = MaxRotations
    /\ pc = "idle"
    /\ swapping = <<>>
    /\ removing = {}
    /\ tweens = {}
    /\ op = "new"
    /\ pre = <<>>
    /\ found = {}
    /\ ret = FALSE
    /\ callbacks = <<>>
    /\ calls = 0
    /\ target = 0
    /\ rotations = <<>>
    /\ phases = <<>>

(* one iteration of the do-while of initializeGrid with gemType the value
   getRandomGemType returned, and createGem when the loop is left *)
drawGemType(gemType) ==
    LET row == cursor \div cols
        col == cursor % cols
        n == CellNode(row, col, cols)
    IN  /\ cursor < rows * cols
        /\ IF wouldCreateMatchGame(grid, gem, row, col, gemType)
           THEN /\ rejected < MaxDraws
                /\ rejected' = rejected + 1
                /\ op' = "initializeGrid"
                /\ UNCHANGED <<grid, gem, alive, cursor>>
           ELSE /\ grid' = [grid EXCEPT ![row][col] = n]
                /\ gem' = [gem EXCEPT ![n] = [type |-> gemType, row |-> row, col |-> col]]
                /\ alive' = alive \cup {n}
                /\ cursor' = cursor + 1
                /\ rejected' = 0
                /\ op' = IF cursor + 1 = rows * cols THEN "start" ELSE "initializeGrid"
        /\ UNCHANGED <<rows, cols, playablePattern, pre, found, ret, callbacks, calls,
                       selectedGem, score, isProcessing, rotationAngle, remainingRotations,
                       pc, swapping, removing, target, rotations, phases, tweens, gemTypes>>

(* Math.floor(Math.random() * gemTypes) *)
GetRandomGemType == \E gemType \in 0 .. gemTypes - 1 : drawGemType(gemType)

NextGen == GetRandomGemType

SpecGen == InitGen /\ [][NextGen]_vars

(***************************************************************************)
(* What the validator is meant to compute                                  *)
(***************************************************************************)
Playable(r, c) == playablePattern[r][c] # 0

Filled(g, r, c) == Playable(r, c) /\ g[r][c] # 0

(* (r, c) lies in a window of three consecutive playable, occupied, same-type
   cells of its row / of its column *)
InHRun(g, r, c) ==
    /\ Filled(g, r, c)
    /\ \E s \in Max(0, c - 2) .. c :
          /\ s + 2 <= cols - 1
          /\ \A i \in s .. s + 2 : Filled(g, r, i) /\ typeOf(g[r][i]) = typeOf(g[r][c])

InVRun(g, r, c) ==
    /\ Filled(g, r, c)
    /\ \E s \in Max(0, r - 2) .. r :
          /\ s + 2 <= rows - 1
          /\ \A i \in s .. s + 2 : Filled(g, i, c) /\ typeOf(g[i][c]) = typeOf(g[r][c])

RunTiles(g) ==
    {g[p[1]][p[2]] : p \in {q \in RowIdx \X ColIdx : InHRun(g, q[1], q[2]) \/ InVRun(g, q[1], q[2])}}

(* orthogonally adjacent cells, both playable and occupied *)
SwappablePairs(g) ==
    {p \in (RowIdx \X ColIdx) \X (RowIdx \X ColIdx) :
        /\ \/ p[1][1] = p[2][1] /\ p[2][2] = p[1][2] + 1
           \/ p[1][2] = p[2][2] /\ p[2][1] = p[1][1] + 1
        /\ Filled(g, p[1][1], p[1][2])
        /\ Filled(g, p[2][1], p[2][2])}

(* C1: findAllMatches returns exactly the nodes lying in a horizontal or vertical
   run of three or more consecutive playable, occupied, same-type cells; a blocked
   or empty cell ends a run *)
C1_FindAllMatchesExact == op = "findAllMatches" => found = RunTiles(grid)

(* a row holding  A A # A  (two same-type groups either side of a blocked cell) that
   is not matched, on a board that has a match elsewhere *)
C1_Witness ==
    /\ op = "findAllMatches"
    /\ found # {}
    /\ \E r \in RowIdx : \E c \in 0 .. cols - 4 :
          /\ Filled(grid, r, c) /\ Filled(grid, r, c + 1) /\ Filled(grid, r, c + 3)
          /\ playablePattern[r][c + 2] = 0
          /\ typeOf(grid[r][c + 1]) = typeOf(grid[r][c])
          /\ typeOf(grid[r][c + 3]) = typeOf(grid[r][c])
          /\ grid[r][c] \notin found

(* C6: hasValidMoves leaves every slot of the board holding the node it held
   before the call, whatever it returns *)
C6_HasValidMovesKeepsBoard == op = "hasValidMoves" => grid = pre

(* a call that returned true from inside the swap loop *)
C6_Witness == op = "hasValidMoves" /\ ret /\ grid = pre /\ SwappablePairs(pre) # {}

(* C7: on a board without matches, hasValidMoves is true exactly when swapping some
   orthogonally adjacent pair of playable, occupied cells makes findAllMatches
   non-empty *)
C7_HasValidMovesIffSwapMatches ==
    (op = "hasValidMoves" /\ findAllMatches(pre) = {}) =>
        (ret <=> \E p \in SwappablePairs(pre) :
                    findAllMatches(swapSlots(pre, p[1][1], p[1][2], p[2][1], p[2][2])) # {})

(* a match-free board with a blocked cell on which the call found a move *)
C7_Witness ==
    /\ op = "hasValidMoves"
    /\ findAllMatches(pre) = {}
    /\ ret
    /\ \E r \in RowIdx, c \in ColIdx : playablePattern[r][c] = 0

(***************************************************************************)
(* What a gravity pass is meant to do                                      *)
(***************************************************************************)
GravityOps == {"applyDown", "applyLeft", "applyUp", "applyRight"}

TowardLow == {"applyDown", "applyLeft"}

(* the lines a pass works on *)
LinesOf(name) ==
    IF name \in {"applyDown", "applyUp"}
    THEN {column(c) : c \in ColIdx}
    ELSE {rowLine(r) : r \in RowIdx}

At(g, cell) == g[cell[1]][cell[2]]

PlayableAt(line) == {k \in 1 .. Len(line) : Playable(line[k][1], line[k][2])}

OccupiedAt(g, line) == {k \in PlayableAt(line) : At(g, line[k]) # 0}

NodesOn(g) == {g[r][c] : r \in RowIdx, c \in ColIdx} \ {0}

SlotsOf(g, n) == {q \in RowIdx \X ColIdx : g[q[1]][q[2]] = n}

NoTileOnBlocked(g) == \A r \in RowIdx, c \in ColIdx : Playable(r, c) \/ g[r][c] = 0

(* C2: after a pass the occupied cells of every line are the first n playable
   cells counted from the gravity end, n the number of tiles the line held; no
   blocked cell is occupied *)
C2_PackedTowardGravityEnd ==
    op \in GravityOps =>
        /\ NoTileOnBlocked(grid)
        /\ \A line \in LinesOf(op) :
              /\ Cardinality(OccupiedAt(grid, line)) = Cardinality(OccupiedAt(pre, line))
              /\ \A k \in OccupiedAt(grid, line) : \A j \in PlayableAt(line) :
                    (IF op \in TowardLow THEN j < k ELSE j > k) => j \in OccupiedAt(grid, line)

(* Down gravity on a column with mask [playable, blocked, playable, playable] and a
   tile only at row 3: the tile ends at row 0 *)
C2_Witness ==
    /\ op = "applyDown"
    /\ rows = 4
    /\ \E c \in ColIdx :
          /\ playablePattern[0][c] = 1 /\ playablePattern[1][c] = 0
          /\ playablePattern[2][c] = 1 /\ playablePattern[3][c] = 1
          /\ pre[0][c] = 0 /\ pre[2][c] = 0 /\ pre[3][c] # 0
          /\ grid[0][c] = pre[3][c]

(* C3: a pass keeps the tiles of each line in their relative order *)
C3_OrderKept ==
    op \in GravityOps =>
        \A line \in LinesOf(op) :
            \A i, j \in OccupiedAt(pre, line) :
                i < j => \E a, b \in OccupiedAt(grid, line) :
                            /\ At(grid, line[a]) = At(pre, line[i])
                            /\ At(grid, line[b]) = At(pre, line[j])
                            /\ a < b

(* C4: a pass keeps the set of tiles and leaves each tile in exactly one slot *)
C4_TilesConserved ==
    op \in GravityOps =>
        /\ NodesOn(grid) = NodesOn(pre)
        /\ \A n \in NodesOn(grid) : Cardinality(SlotsOf(grid, n)) = 1

(* a pass that moved tiles on a board with at least three tiles and a blocked cell *)
C4_Witness ==
    /\ op \in {"applyDown", "applyRight"}
    /\ ret
    /\ Cardinality(NodesOn(pre)) >= 3
    /\ grid # pre
    /\ ~ (\A r \in RowIdx, c \in ColIdx : Playable(r, c))

(* C5: from a board with no tile on a blocked cell, no sequence of passes puts a
   tile on a blocked cell, and no pass changes the content of a blocked cell *)
C5_BlockedCellsUntouched ==
    /\ [](NoTileOnBlocked(grid))
    /\ [][\A r \in RowIdx, c \in ColIdx : Playable(r, c) \/ grid'[r][c] = grid[r][c]]_vars

(* a second pass in a row that moved a tile across a blocked cell *)
C5_Witness ==
    /\ calls = 2
    /\ op \in GravityOps
    /\ NoTileOnBlocked(grid)
    /\ \E line \in LinesOf(op) : \E i, b, j \in 1 .. Len(line) :
          /\ i < b /\ b < j
          /\ ~ Playable(line[b][1], line[b][2])
          /\ At(pre, line[i]) # 0
          /\ At(grid, line[j]) = At(pre, line[i])

(***************************************************************************)
(* The controller's turns                                                  *)
(***************************************************************************)
Gestures == {"onGemClicked", "rotateBoard"}

(* C8: a gem click or rotate request handled while isProcessing is set changes
   neither board, selection, score, angle nor rotation count, and leaves the
   running turn (and so what will run later) as it was *)
C8_GesturesIgnoredWhileBusy ==
    [][(isProcessing /\ op' \in Gestures) => UNCHANGED <<grid, gem, ctl>>]_vars

(* a click was just handled while a rotation turn was running with a gem selected *)
C8_Witness ==
    /\ isProcessing
    /\ op = "onGemClicked"
    /\ selectedGem # 0
    /\ pc \in {"animateRotation", "gravity", "fill", "removeGems"}

(* C9: whenever isProcessing is clear every cell of the board holds a gem *)
C9_BoardFullWhenIdle ==
    ~ isProcessing => \A r \in RowIdx, c \in ColIdx : grid[r][c] # 0

(* C10: the game starts on a board without matches, and whenever isProcessing is
   clear findAllMatches is empty: a turn ends only after a scan that found nothing *)
C10_NoMatchWhenIdle == ~ isProcessing => findAllMatchesGame(grid) = {}

(* the steps of a swap turn whose scan finds no match: swapGems up to the first
   animateSwap, the swap back, the end of the turn *)
SwapTurnStarts == pc = "idle" /\ pc' = "animateSwap"

SwapReverts == pc = "animateSwap" /\ pc' = "animateSwapBack"

RevertedTurnEnds == pc = "animateSwapBack" /\ pc' = "idle"

(* C11: when a swap turn whose scan found no match ends, the board holds in every
   slot the node it held before the swap, and no step of that turn changed the
   score, the rotation angle or the remaining rotations *)
C11_SwapWithoutMatchUndone ==
    [][/\ RevertedTurnEnds => grid' = pre
       /\ (SwapTurnStarts \/ SwapReverts \/ RevertedTurnEnds) =>
              UNCHANGED <<score, rotationAngle, remainingRotations>>]_vars

(* a cascade step: processMatches is entered with the result of a scan *)
CascadeStep == pc # "removeGems" /\ pc' = "removeGems"

(* C12: a cascade step adds to the score 10 times the number of nodes findAllMatches
   returns on the board it scans, and no other step changes the score *)
C12_ScoreAddsTenPerMatchedTile ==
    [][/\ CascadeStep => score' = score + 10 * Cardinality(findAllMatchesGame(grid))
       /\ score' # score => CascadeStep]_vars

(* a step that removes more than three gems has just added 10 for each of them *)
C12_Witness ==
    /\ pc = "removeGems"
    /\ op = "resume"
    /\ Cardinality(removing) > 3
    /\ score = 10 * Cardinality(removing)

(* C13: no step of any gesture or turn lowers the score *)
C13_ScoreNeverDecreases == [][score' >= score]_vars

(* a cascade step has just raised a score that was already positive *)
C13_Witness ==
    /\ pc = "removeGems"
    /\ op = "resume"
    /\ removing # {}
    /\ score > 10 * Cardinality(removing)

(***************************************************************************)
(* Rotation                                                                *)
(***************************************************************************)
(* a rotate request that started a turn *)
RotationAccepted == op' = "rotateBoard" /\ pc = "idle" /\ pc' = "animateRotation"

(* C14: the remaining rotation count never increases and is never below 0; it
   changes only in a step that accepts a rotate request, and then drops by 1 *)
C14_RotationBudget ==
    /\ [](remainingRotations >= 0)
    /\ [][/\ remainingRotations' <= remainingRotations
          /\ RotationAccepted => remainingRotations' = remainingRotations - 1
          /\ remainingRotations' # remainingRotations => RotationAccepted]_vars

(* the whole budget was used, one request at a time, and a further request was
   turned down *)
C14_Witness ==
    /\ remainingRotations = 0
    /\ Len(rotations) = RotBudget
    /\ \A i \in 1 .. Len(rotations) : rotations[i].budget = RotBudget - i + 1
    /\ op = "rotateBoard"
    /\ ~ isProcessing

(* C15: a rotate request made when remainingRotations is 0 changes neither angle,
   remaining count, board, score, selection nor the busy flag *)
C15_NoRotationWithoutBudget ==
    [][(op' = "rotateBoard" /\ remainingRotations = 0) => UNCHANGED <<grid, gem, ctl>>]_vars

(* a request was just turned down for the budget alone: no turn is running, a gem
   is selected, the board has an empty cell the new direction would have moved a
   gem into *)
C15_Witness ==
    /\ op = "rotateBoard"
    /\ ~ isProcessing
    /\ remainingRotations = 0
    /\ selectedGem # 0
    /\ EmptyCells(grid) # {}

Angles == {0, 90, 180, 270}

(* rotations i .. i+3 were requested in the same direction *)
SameDirection(i) == \A k \in i .. i + 3 : rotations[k].degrees = rotations[i].degrees

(* C16: the angle is one of 0, 90, 180, 270; four accepted rotations in a row in
   the same direction end at the angle the first started from and take 4 from
   the budget; angle and budget are those the last accepted rotation left; with
   the budget at 0 a rotate request leaves the angle as it is *)
C16_RotationCycle ==
    /\ [](rotationAngle \in Angles)
    /\ [](\A i \in 1 .. Len(rotations) - 3 :
             SameDirection(i) =>
                 /\ rotations[i + 3].to = rotations[i].from
                 /\ rotations[i].budget - (rotations[i + 3].budget - 1) = 4)
    /\ [](Len(rotations) > 0 =>
             /\ rotationAngle = rotations[Len(rotations)].to
             /\ remainingRotations = rotations[Len(rotations)].budget - 1)
    /\ [][(op' = "rotateBoard" /\ remainingRotations = 0) => rotationAngle' = rotationAngle]_vars

(* four rotations to the left brought the angle back to 0 through 270, 180 and 90,
   and a fifth request was turned down *)
C16_Witness ==
    /\ Len(rotations) = 4
    /\ SameDirection(1)
    /\ rotations[1].degrees = 0 - 90
    /\ rotations[1].to = 270
    /\ rotationAngle = 0
    /\ remainingRotations = RotBudget - 4
    /\ op = "rotateBoard"
    /\ pc = "idle"

(* the table of the angles *)
DirectionOf(angle) ==
    CASE angle = 0 -> "Down"
      [] angle = 90 -> "Left"
      [] angle = 180 -> "Up"
      [] angle = 270 -> "Right"

(* the cells a gem at (r, c) has between it and the end the direction points to *)
Beyond(dir, r, c) ==
    CASE dir = "Down" -> {q \in RowIdx \X ColIdx : q[2] = c /\ q[1] < r}
      [] dir = "Left" -> {q \in RowIdx \X ColIdx : q[1] = r /\ q[2] < c}
      [] dir = "Up" -> {q \in RowIdx \X ColIdx : q[2] = c /\ q[1] > r}
      [] dir = "Right" -> {q \in RowIdx \X ColIdx : q[1] = r /\ q[2] > c}

(* no gem has an empty cell between it and that end *)
PackedToward(dir, g) ==
    \A r \in RowIdx, c \in ColIdx :
        g[r][c] # 0 => \A q \in Beyond(dir, r, c) : g[q[1]][q[2]] # 0

(* the lines along the direction hold the same gems *)
SameGemsPerLine(dir, g, h) ==
    IF dir \in {"Down", "Up"}
    THEN \A c \in ColIdx : {g[r][c] : r \in RowIdx} = {h[r][c] : r \in RowIdx}
    ELSE \A r \in RowIdx : {g[r][c] : c \in ColIdx} = {h[r][c] : c \in ColIdx}

(* a step in which applyGravity runs its directional pass *)
GravityPassRuns == pc # "gravity" /\ pc' = "gravity"

(* C17: the pass a turn runs packs every column toward row 0 at angle 0, every row
   toward column 0 at 90, every column toward the highest row at 180, every row
   toward the highest column at 270, the angle being the current one (after a
   rotation, the new one), and keeps the gems of each such line *)
C17_GravityFollowsAngle ==
    [][GravityPassRuns =>
          /\ rotationAngle' = rotationAngle
          /\ rotationAngle \in Angles
          /\ PackedToward(DirectionOf(rotationAngle), grid')
          /\ SameGemsPerLine(DirectionOf(rotationAngle), grid, grid')
          /\ (pc = "animateRotation" => rotationAngle = rotations[Len(rotations)].to)]_vars

(* after two rotations the pass at angle 180 has just moved gems toward the
   highest row *)
C17_Witness ==
    /\ pc = "gravity"
    /\ op = "resume"
    /\ ret
    /\ rotationAngle = 180
    /\ \E c \in ColIdx : grid[0][c] = 0 /\ grid[rows - 1][c] # 0

(***************************************************************************)
(* Selection                                                               *)
(***************************************************************************)
(* a and b are on the board in slots next to each other in a row or a column *)
OrthogonallyAdjacent(g, a, b) ==
    \E p \in SlotsOf(g, a), q \in SlotsOf(g, b) :
        \/ p[1] = q[1] /\ (p[2] = q[2] + 1 \/ q[2] = p[2] + 1)
        \/ p[2] = q[2] /\ (p[1] = q[1] + 1 \/ q[1] = p[1] + 1)

NoTurnStarts == ~ isProcessing' /\ pc' = "idle" /\ grid' = grid

(* a swap turn of a and b starts: the two exchange their slots *)
SwapTurnOf(a, b) ==
    /\ isProcessing'
    /\ pc' = "animateSwap"
    /\ swapping' = <<a, b>>
    /\ \A r \in RowIdx, c \in ColIdx :
          grid'[r][c] = IF grid[r][c] = a THEN b ELSE IF grid[r][c] = b THEN a ELSE grid[r][c]

(* C18: a click handled while no turn runs follows the table: nothing selected ->
   the clicked gem is selected; the selected gem clicked -> nothing is selected; a
   gem orthogonally adjacent to the selected one clicked -> a swap turn of the two
   starts and nothing is selected; any other gem clicked -> it is selected and no
   turn starts *)
C18_SelectionTable ==
    [][(op' = "onGemClicked" /\ ~ isProcessing) =>
          IF selectedGem = 0 THEN selectedGem' = target' /\ NoTurnStarts
          ELSE IF selectedGem = target' THEN selectedGem' = 0 /\ NoTurnStarts
          ELSE IF OrthogonallyAdjacent(grid, selectedGem, target')
               THEN selectedGem' = 0 /\ SwapTurnOf(selectedGem, target')
               ELSE selectedGem' = target' /\ NoTurnStarts]_vars

(***************************************************************************)
(* The generated board                                                     *)
(***************************************************************************)
(* C19: the board initializeGrid leaves has no match: findAllMatches is empty *)
C19_GeneratedBoardHasNoMatch == op = "start" => findAllMatchesGame(grid) = {}

(* a generated 3x3 board on which a drawn type was turned down both for the two
   gems before it in its row and, elsewhere, for the two gems below it *)
C19_Witness ==
    /\ op = "start"
    /\ rows >= 3 /\ cols >= 3
    /\ \E r \in RowIdx, c \in ColIdx, t \in 0 .. GemTypes - 1 :
          /\ wouldCreateMatchGame(grid, gem, r, c, t)
          /\ c >= 2 /\ typeOf(grid[r][c - 1]) = t /\ typeOf(grid[r][c - 2]) = t
    /\ \E r \in RowIdx, c \in ColIdx, t \in 0 .. GemTypes - 1 :
          /\ wouldCreateMatchGame(grid, gem, r, c, t)
          /\ r >= 2 /\ typeOf(grid[r - 1][c]) = t /\ typeOf(grid[r - 2][c]) = t

(* C20: on the board initializeGrid leaves, hasValidMoves returns true (stated for
   the boards a run of three fits on) *)
C20_GeneratedBoardHasValidMove ==
    (op = "start" /\ (rows >= 3 \/ cols >= 3)) => hasValidMoves(grid).ret

(* C21: initializeGrid turns down at most RetryCeiling draws for any one cell (and
   then forces a type), whatever the number of gem types and the draws *)
C21_RejectedDrawsBounded == rejected <= RetryCeiling

(***************************************************************************)
(* Turns                                                                   *)
(***************************************************************************)
(* the running turn has a scan before it whose matches would lift the score above
   MaxScore: the model takes no such step *)
AtScoreBound ==
    /\ pc = "animateSwap" \/ (pc = "gravity" /\ ~ ret)
    /\ score + 10 * Cardinality(findAllMatchesGame(grid)) > MaxScore

(* C22: once a swap or an accepted rotation has set isProcessing, isProcessing is
   cleared later, every animation that is started completing (or the cascade is
   still finding matches when the score reaches MaxScore) *)
C22_TurnEnds == isProcessing ~> (~ isProcessing \/ AtScoreBound)

(* a turn that rotated the board, refilled it and scored in more than one cascade
   step has ended *)
C22_Witness ==
    /\ ~ isProcessing
    /\ op = "resume"
    /\ remainingRotations = 0
    /\ EmptyCells(grid) = {}
    /\ score >= 60

(* the step in which a turn clears isProcessing *)
TurnOver == isProcessing /\ ~ isProcessing'

(* the step runs the shuffle procedure before it clears the flag: no step of the
   controller does, it has no shuffle procedure *)
ShuffleRuns == op' = "shuffle"

(* C23: a turn (cascade, failed swap or rotation) that leaves a board on which
   hasValidMoves is false runs the shuffle procedure before it clears isProcessing
   (stated for the boards a run of three fits on) *)
C23_ShuffleWhenNoValidMove ==
    [][(TurnOver /\ (rows >= 3 \/ cols >= 3) /\ ~ hasValidMoves(grid).ret) => ShuffleRuns]_vars

(***************************************************************************)
(* Gravity passes that have nothing to do                                  *)
(***************************************************************************)
(* in every column the tiles are on the lowest playable cells *)
PackedDown(g) ==
    \A c \in ColIdx : \A k \in OccupiedAt(g, column(c)) : \A j \in PlayableAt(column(c)) :
        j < k => j \in OccupiedAt(g, column(c))

(* C24: applyDown reports moved exactly when the board it is applied to is not
   packed; applied right after applyDown it leaves every slot and component as it
   is, issues no callback and reports moved = false *)
C24_DownTwice ==
    [][op' = "applyDown" =>
          /\ ret' <=> ~ PackedDown(grid)
          /\ op = "applyDown" =>
                (grid' = grid /\ gem' = gem /\ callbacks' = <<>> /\ ~ ret')]_vars

(* a column of height 5, all playable, that held tiles at rows 0, 2 and 4 only,
   after two applications: the tiles are at rows 0, 1, 2 in their order and the
   second reported moved = false *)
C24_Witness ==
    /\ op = "applyDown"
    /\ calls = 2
    /\ ~ ret
    /\ rows = 5 /\ cols = 1
    /\ \A r \in RowIdx : Playable(r, 0)
    /\ grid[0][0] = CellNode(0, 0, 1)
    /\ grid[1][0] = CellNode(2, 0, 1)
    /\ grid[2][0] = CellNode(4, 0, 1)
    /\ grid[3][0] = 0 /\ grid[4][0] = 0

(***************************************************************************)
(* The result of a scan                                                    *)
(***************************************************************************)
(* C25: findAllMatches leaves the board (slots, components, mask) as it is, and a
   call that follows a call returns the same set of nodes *)
C25_FindAllMatchesPure ==
    [][op' = "findAllMatches" =>
          /\ UNCHANGED board
          /\ op = "findAllMatches" => found' = found]_vars

(* a call has returned matched nodes from a board with a blocked and an empty cell,
   and the board is the one the call was made on *)
C25_Witness ==
    /\ op = "findAllMatches"
    /\ Cardinality(found) >= 3
    /\ grid = pre
    /\ found = findAllMatches(grid)
    /\ \E r \in RowIdx, c \in ColIdx : playablePattern[r][c] = 0
    /\ \E r \in RowIdx, c \in ColIdx : playablePattern[r][c] = 1 /\ grid[r][c] = 0

(* C26: the array findAllMatches returns holds no node twice, and holds exactly the
   matched nodes: a tile on both a horizontal and a vertical run is in it once *)
C26_MatchedTileOnce ==
    op = "findAllMatches" =>
        \E a \in {findAllMatchesArray(grid)} :
            /\ \A i, j \in 1 .. Len(a) : a[i] = a[j] => i = j
            /\ {a[i] : i \in 1 .. Len(a)} = found

(* the scan has returned a tile that lies on a horizontal and on a vertical run *)
C26_Witness ==
    /\ op = "findAllMatches"
    /\ \E r \in RowIdx, c \in ColIdx :
          /\ InHRun(grid, r, c) /\ InVRun(grid, r, c)
          /\ grid[r][c] \in found

(* every playable cell holds a tile *)
Full(g) == \A r \in RowIdx, c \in ColIdx : Playable(r, c) => g[r][c] # 0

(* C27: a pass in any of the four directions applied to a board on which every
   playable cell holds a tile leaves the board unchanged, issues no callback and
   reports moved = false *)
C27_FullBoardUnmoved ==
    [][(op' \in GravityOps /\ Full(grid)) =>
          (grid' = grid /\ callbacks' = <<>> /\ ~ ret')]_vars

(***************************************************************************)
(* What a pass reports                                                     *)
(***************************************************************************)
(* the tiles that are in another slot after the pass *)
MovedTiles == {n \in NodesOn(pre) : SlotsOf(grid, n) # SlotsOf(pre, n)}

CallbacksFor(n) == {i \in 1 .. Len(callbacks) : callbacks[i][1] = n}

(* C28: a pass returns true exactly when some tile is in another slot than before;
   it has issued the callback once for each such tile, with the slot the tile is
   in now, and for no other tile *)
C28_MovedReported ==
    op \in GravityOps =>
        /\ ret <=> MovedTiles # {}
        /\ \A n \in NodesOn(pre) :
              Cardinality(CallbacksFor(n)) = IF n \in MovedTiles THEN 1 ELSE 0
        /\ \A i \in 1 .. Len(callbacks) :
              /\ callbacks[i][1] \in NodesOn(pre)
              /\ SlotsOf(grid, callbacks[i][1]) = {<<callbacks[i][2], callbacks[i][3]>>}

(* a pass has moved some tiles of a board with a blocked cell and left another
   tile where it was *)
C28_Witness ==
    /\ op \in GravityOps
    /\ ret
    /\ Cardinality(MovedTiles) >= 2
    /\ NodesOn(pre) \ MovedTiles # {}
    /\ Len(callbacks) = Cardinality(MovedTiles)
    /\ \E r \in RowIdx, c \in ColIdx : ~ Playable(r, c)

(***************************************************************************)
(* One turn at a time                                                      *)
(***************************************************************************)
(* what a turn works on *)
worked == <<grid, score, rotationAngle, remainingRotations>>

(* what tells where the running turn is *)
position == <<pc, swapping, removing, tweens>>

(* C29: isProcessing is set exactly while a turn is suspended on an await; a
   gesture starts a turn only when the flag is clear, and sets it; while the flag is
   set no gesture changes the board, the score, the angle, the rotation count or
   where the running turn is; while it is clear they change only in the step that
   starts a turn *)
C29_OneTurnAtATime ==
    /\ [](isProcessing <=> pc # "idle")
    /\ [][/\ (op' \in Gestures /\ position' # position) =>
                (~ isProcessing /\ pc = "idle" /\ isProcessing')
          /\ (isProcessing /\ op' \in Gestures) => UNCHANGED <<worked, position>>
          /\ (~ isProcessing /\ worked' # worked) =>
                (op' \in Gestures /\ isProcessing')]_vars

(* a rotate request that had budget left arrived while the refill of a cascade was
   being animated, and was turned down *)
C29_Witness ==
    /\ op = "rotateBoard"
    /\ isProcessing
    /\ remainingRotations > 0
    /\ pc = "fill"
    /\ tweens # {}
    /\ score > 0

(***************************************************************************)
(* The phases of a cascade step                                            *)
(***************************************************************************)
(* the step is the callback of the last animation the turn waits for, or follows
   an await of no animation *)
LastCallback == Cardinality(running) <= 1

(* C30: the gravity pass of a cascade step starts with the callback of the last
   removal tween, every removed gem destroyed; the fill starts with the callback of
   the last move of the pass; the pass that follows the fill starts with the
   callback of the last move of the fill; and the rescan is made only from a pass
   that moved no gem, with no animation running *)
C30_PhasesInOrder ==
    [][/\ (pc = "removeGems" /\ pc' # pc) =>
             (LastCallback /\ pc' = "gravity" /\ removing' = {} /\ removing \cap alive' = {})
       /\ (pc = "gravity" /\ pc' = "fill") => (LastCallback /\ ret /\ tweens \cap tweens' = {})
       /\ (pc = "fill" /\ pc' # pc) => (LastCallback /\ pc' = "gravity")
       /\ (pc = "gravity" /\ pc' \in {"removeGems", "idle"}) => (running = {} /\ ~ ret)
       /\ pc' = "removeGems" => (pc = "removeGems" \/ running' = removing')]_vars

(* the refill of a cascade step is being animated, one of its moves has completed
   and another has not *)
C30_Witness ==
    /\ pc = "fill"
    /\ op = "tween"
    /\ score > 0
    /\ tweens # {}
    /\ \E r \in RowIdx, c \in ColIdx : grid[r][c] # 0 /\ grid[r][c] \notin tweens

(***************************************************************************)
(* The rotation turn                                                       *)
(***************************************************************************)
(* the first scan of a rotation turn: findAllMatches at line 166 *)
FirstScanOfRotation ==
    /\ pc = "gravity" /\ pc' \in {"removeGems", "idle"}
    /\ swapping = <<>>
    /\ phases # <<>> /\ phases[Len(phases)] # "scan"

(* C31: an accepted rotation turn goes from the rotation to one gravity pass for the
   new direction; when it scans for the first time it has run that one pass and
   then the fill (no fill when no cell was empty), and no further pass *)
C31_OnePassThenFillThenScan ==
    [][/\ (pc = "animateRotation" /\ pc' # pc) =>
             /\ pc' = "gravity"
             /\ rotationAngle = rotations[Len(rotations)].to
             /\ grid' = directionalGravity(rotationAngle, grid, gem).grid
       /\ FirstScanOfRotation =>
             \/ phases = <<"gravity", "fill">>
             \/ phases = <<"gravity">> /\ EmptyCells(grid) = {}]_vars

(* C32: with no turn running, the selected gem, if any, is a gem of the board that
   has not been destroyed *)
C32_SelectionOnBoard ==
    (~ isProcessing /\ selectedGem # 0) =>
        (selectedGem \in NodesIn(grid) /\ selectedGem \in alive)

(***************************************************************************)
(* Cached coordinates                                                      *)
(***************************************************************************)
CachedAt(g, gm) ==
    \A r \in RowIdx, c \in ColIdx :
        g[r][c] # 0 => (gm[g[r][c]].row = r /\ gm[g[r][c]].col = c)

(* C33: each gem stored at grid[r][c] has row = r and col = c in its component, so
   removeGems, which empties the slot each matched gem's component names, takes
   every matched gem off the grid *)
C33_CachedCoordinates ==
    /\ [](CachedAt(grid, gem))
    /\ [][CascadeStep => (removing' # {} /\ removing' \cap NodesIn(grid') = {})]_vars

(* a swap turn under sideways gravity whose pass moved gems and which then filled
   the empty cells *)
C33_Witness ==
    /\ pc = "fill" /\ ret
    /\ swapping # <<>>
    /\ rotationAngle \in {90, 270}
    /\ CachedAt(grid, gem)

(***************************************************************************)
(* The extracted passes against the controller's own                       *)
(***************************************************************************)
AllPlayable == \A r \in RowIdx, c \in ColIdx : Playable(r, c)

(* the pass of Match3Game for the direction of a pass of GravityManager *)
controllerPass(name, g, gm) ==
    CASE name = "applyDown" -> applyDownGravity(g, gm)
      [] name = "applyLeft" -> applyLeftGravity(g, gm)
      [] name = "applyUp" -> applyUpGravity(g, gm)
      [] name = "applyRight" -> applyRightGravity(g, gm)

(* C34: on a board whose mask is fully playable, a pass of GravityManager in any
   of the four directions leaves the board that the controller's pass for that
   direction makes of the same starting board, and returns the same moved value *)
C34_PassesAgree ==
    [][(op' \in GravityOps /\ AllPlayable) =>
          /\ grid' = controllerPass(op', grid, gem).grid
          /\ ret' = controllerPass(op', grid, gem).moved]_vars

====
